---- MODULE Spec2Model ----
(***************************************************************************)
(* Model of the Pincer gateway client pieces: the GUILD_ROLE_UPDATE and    *)
(* MESSAGE_CREATE middleware running as coroutines on one asyncio event    *)
(* loop over the client's guild cache, Guild.from_dict, the command-line   *)
(* entry point, and the dispatcher / session state machine of the design.  *)
(***************************************************************************)
EXTENDS Integers, Sequences, FiniteSets, TLC

VARIABLES
    guilds,     \* Client.guilds: cached guild id -> Guild (its roles list)
    payload,    \* per task: the GatewayDispatch handed to the coroutine
    pc,         \* per task: position of the coroutine
    event,      \* per task: local `event` of guild_role_update_middleware
    guild,      \* per task: local `guild` (the walrus target), None when absent
    newRoles,   \* per task: the list built by the comprehension, before the store
    result,     \* per task: value returned by the coroutine / read by the handler
    running,    \* the task the event loop is running, 0 when the loop is free
    history,    \* order in which role-update tasks stored guild.roles
    \* ---- Guild.from_dict
    gdData,     \* the dict passed to the last call
    gdRaised,   \* the exception that call raised, "" when it returned
    gdResult,   \* the Guild that call returned
    gdBuilt,    \* ids of the guilds constructed so far
    \* ---- python -m pincer
    args,       \* the argparse namespace
    mainPc,     \* "start" before main runs, "done" after
    performed,  \* the calls main made, in order
    mainRaised, \* the exception main ended with, "" when it returned
    \* ---- session state machine
    status,
    session_id,
    sequence_watermark,
    maxSeen,    \* largest sequence number received in the session
    \* ---- dispatcher
    registrations,  \* ordered HandlerRegistrations
    regLog,         \* per handler: how and when it was registered
    invocations,    \* per handler: times invoked
    dpc,            \* per dispatch: position in handle(envelope)
    denv,           \* per dispatch: wire event name of its envelope
    dname,          \* per dispatch: internal event name from the transform
    dqueue,         \* per dispatch: handlers it still has to invoke
    dtakenAt,       \* per dispatch: when it looked its handlers up
    dclock          \* counts registrations and lookups

mwVars == <<guilds, payload, pc, event, guild, newRoles, result, running, history>>

gdVars == <<gdData, gdRaised, gdResult, gdBuilt>>

mainVars == <<args, mainPc, performed, mainRaised>>

sessVars == <<status, session_id, sequence_watermark, maxSeen>>

dispVars == <<registrations, regLog, invocations, dpc, denv, dname, dqueue,
              dtakenAt, dclock>>

otherThanMw == <<gdVars, mainVars, sessVars, dispVars>>

vars == <<mwVars, gdVars, mainVars, sessVars, dispVars>>

----------------------------------------------------------------------------
(* Bounds and small input sets *)

MaxTasks == 2

Tasks == 1..MaxTasks

None == 0

PayloadGuildIds == {1, 2, 3}    \* guild 3 is never cached

PayloadRoleIds == {8, 9}

RoleNames == {"new", "newer"}

MessageContents == {"hi", "yo"}

\* A Role object: the decoded fields plus the identity of the object (ref):
\* 0 for the objects the cache was filled with, t for the one task t decoded.
MkRole(id, name, ref) == [id |-> id, name |-> name, ref |-> ref]

NoRole == MkRole(None, "", None)

NoEvent == [guild_id |-> None, role |-> NoRole]

InitialGuilds ==
    (1 :> [id |-> 1, roles |-> <<MkRole(9, "old", 0), MkRole(8, "old", 0)>>])
    @@ (2 :> [id |-> 2, roles |-> <<MkRole(7, "old", 0)>>])

RoleUpdatePayloads ==
    { [event_name |-> "GUILD_ROLE_UPDATE",
       data |-> [guild_id |-> g, role |-> [id |-> r, name |-> n]]] :
        g \in PayloadGuildIds, r \in PayloadRoleIds, n \in RoleNames }

MessageCreatePayloads ==
    { [event_name |-> "MESSAGE_CREATE", data |-> [id |-> 1, content |-> c]] :
        c \in MessageContents }

\* A user handler task that reads the roles of a cached guild.
HandlerReads ==
    { [event_name |-> "handler_read", data |-> [guild_id |-> g]] :
        g \in DOMAIN InitialGuilds }

NoPayload == [event_name |-> "", data |-> [guild_id |-> None]]

----------------------------------------------------------------------------
(* guild_role_update_middleware *)

\* GuildRoleUpdateEvent.from_dict(payload.data): a new event holding a new Role.
GuildRoleUpdateEventFromDict(data, t) ==
    [guild_id |-> data.guild_id,
     role |-> MkRole(data.role.id, data.role.name, t)]

\* self.guilds.get(guild_id): the guild (named by its key) or None.
GuildsGet(gs, id) == IF id \in DOMAIN gs THEN id ELSE None

\* Truth value of the walrus target in `if guild := ...`.
WalrusAlwaysTrue(g) == TRUE

WalrusTruthy(g) == g /= None

\* [role if role.id != event.role.id else event.role for role in guild.roles]
KeepMatchingRole(roles, newRole) ==
    [i \in 1..Len(roles) |->
        IF roles[i].id = newRole.id THEN roles[i] ELSE newRole]

AppendRole(roles, newRole) ==
    IF \E i \in 1..Len(roles) : roles[i].id = newRole.id
    THEN [i \in 1..Len(roles) |->
            IF roles[i].id /= newRole.id THEN roles[i] ELSE newRole]
    ELSE Append(roles, newRole)

ReplaceRole(roles, newRole) ==
    [i \in 1..Len(roles) |->
        IF roles[i].id /= newRole.id THEN roles[i] ELSE newRole]

\* Whether the coroutine gives the loop back before the statement at position p.
\* The body of guild_role_update_middleware holds no await.
AwaitBeforeStore(p) == p = "store"

IsAwait(p) == FALSE

Finished(p) == p \in {"done", "raised"}

\* The event loop keeps running task t until it finishes or awaits.
Release(t, p) == IF Finished(p) \/ IsAwait(p) THEN 0 ELSE t

CanRun(t) ==
    \/ running = t
    \/ running = 0 /\ pc[t] # "idle" /\ ~Finished(pc[t])

\* A new GatewayDispatch reaches the client: a coroutine is created for it.
\* Tasks are created from the shard's receive loop, itself a task of the loop,
\* so only while no other task is running.
Dispatch(t, p) ==
    /\ running = 0
    /\ pc[t] = "idle"
    /\ \A u \in Tasks : u < t => pc[u] # "idle"
    /\ payload' = [payload EXCEPT ![t] = p]
    /\ pc' = [pc EXCEPT ![t] =
                CASE p.event_name = "GUILD_ROLE_UPDATE" -> "decode"
                  [] p.event_name = "MESSAGE_CREATE" -> "message_create"
                  [] OTHER -> "read"]
    /\ UNCHANGED <<guilds, event, guild, newRoles, result, running, history, otherThanMw>>

\* event = GuildRoleUpdateEvent.from_dict(payload.data)
Decode(t) ==
    /\ CanRun(t)
    /\ pc[t] = "decode"
    /\ event' = [event EXCEPT ![t] = GuildRoleUpdateEventFromDict(payload[t].data, t)]
    /\ pc' = [pc EXCEPT ![t] = "lookup"]
    /\ running' = Release(t, "lookup")
    /\ UNCHANGED <<guilds, payload, guild, newRoles, result, history, otherThanMw>>

\* if guild := self.guilds.get(event.guild_id):
Lookup(t) ==
    /\ CanRun(t)
    /\ pc[t] = "lookup"
    /\ LET g == GuildsGet(guilds, event[t].guild_id)
           next == IF WalrusTruthy(g) THEN "build" ELSE "return"
       IN /\ guild' = [guild EXCEPT ![t] = g]
          /\ pc' = [pc EXCEPT ![t] = next]
          /\ running' = Release(t, next)
    /\ UNCHANGED <<guilds, payload, event, newRoles, result, history, otherThanMw>>

\* The right-hand side: the comprehension over guild.roles. Reading .roles of
\* None raises AttributeError.
Build(t) ==
    /\ CanRun(t)
    /\ pc[t] = "build"
    /\ IF guild[t] = None
       THEN /\ pc' = [pc EXCEPT ![t] = "raised"]
            /\ running' = Release(t, "raised")
            /\ UNCHANGED newRoles
       ELSE /\ newRoles' = [newRoles EXCEPT ![t] =
                                ReplaceRole(guilds[guild[t]].roles, event[t].role)]
            /\ pc' = [pc EXCEPT ![t] = "store"]
            /\ running' = Release(t, "store")
    /\ UNCHANGED <<guilds, payload, event, guild, result, history, otherThanMw>>

\* guild.roles = <the list built>
Store(t) ==
    /\ CanRun(t)
    /\ pc[t] = "store"
    /\ guilds' = [guilds EXCEPT ![guild[t]].roles = newRoles[t]]
    /\ history' = Append(history, t)
    /\ pc' = [pc EXCEPT ![t] = "return"]
    /\ running' = Release(t, "return")
    /\ UNCHANGED <<payload, event, guild, newRoles, result, otherThanMw>>

\* return ("on_guild_role_update", event)
Return(t) ==
    /\ CanRun(t)
    /\ pc[t] = "return"
    /\ result' = [result EXCEPT ![t] = <<"on_guild_role_update", event[t]>>]
    /\ pc' = [pc EXCEPT ![t] = "done"]
    /\ running' = Release(t, "done")
    /\ UNCHANGED <<guilds, payload, event, guild, newRoles, history, otherThanMw>>

----------------------------------------------------------------------------
(* message_create_middleware *)

\* UserMessage.from_dict({"_client": self, "_http": self.http, **payload.data})
UserMessageFromDict(data, t) ==
    [_client |-> "client", _http |-> "http",
     id |-> data.id, content |-> data.content, ref |-> t]

NoMessages(data, t) == <<>>

\* The list the middleware returns beside "on_message".
MessageList(data, t) == <<UserMessageFromDict(data, t)>>

MessageCreate(t) ==
    /\ CanRun(t)
    /\ pc[t] = "message_create"
    /\ result' = [result EXCEPT ![t] =
                    <<"on_message", MessageList(payload[t].data, t)>>]
    /\ pc' = [pc EXCEPT ![t] = "done"]
    /\ running' = Release(t, "done")
    /\ UNCHANGED <<guilds, payload, event, guild, newRoles, history, otherThanMw>>

----------------------------------------------------------------------------
(* A user handler reading the cached roles of a guild *)

HandlerRead(t) ==
    /\ CanRun(t)
    /\ pc[t] = "read"
    /\ result' = [result EXCEPT ![t] =
                    <<"roles", guilds[payload[t].data.guild_id].roles>>]
    /\ pc' = [pc EXCEPT ![t] = "done"]
    /\ running' = Release(t, "done")
    /\ UNCHANGED <<guilds, payload, event, guild, newRoles, history, otherThanMw>>

----------------------------------------------------------------------------

(* Guild.from_dict *)

GuildIds == {1, 2, 3}

GuildNames == {"a", "b", "c"}

\* The dicts handed to Guild.from_dict: "unavailable" absent, false or true.
GuildDicts ==
    { [id |-> i, name |-> n, has_unavailable |-> h, unavailable |-> u] :
        i \in GuildIds, n \in GuildNames, h \in BOOLEAN, u \in BOOLEAN }
    \ { d \in [id : GuildIds, name : GuildNames,
               has_unavailable : {FALSE}, unavailable : {TRUE}] : TRUE }

NoData == [id |-> None, name |-> "", has_unavailable |-> FALSE, unavailable |-> FALSE]

NoGuild == [id |-> None, name |-> "", unavailable |-> FALSE]

\* typing.TYPE_CHECKING is False when the module runs.
TYPE_CHECKING == FALSE

\* Names the module binds only inside `if TYPE_CHECKING:`.
TypeCheckingImports ==
    {"Dict", "List", "Optional", "Role", "Channel", "Client", "GuildMember",
     "StageInstance", "Emoji", "GuildFeatures", "Sticker", "APINullable",
     "Snowflake", "Timestamp", "VoiceState", "WelcomeScreen",
     "UnavailableGuildError", "PresenceUpdateEvent"}

\* Names bound in the module's globals at run time.
ModuleGlobals ==
    {"annotations", "overload", "TYPE_CHECKING", "IntEnum", "dataclass", "field",
     "MISSING", "APIObject", "Guild"}
    \cup (IF TYPE_CHECKING THEN TypeCheckingImports ELSE {})

\* `raise X(...)`: X is looked up first; an unbound global raises NameError.
RaiseNamed(x) == IF x \in ModuleGlobals THEN x ELSE "NameError"

\* data.get("unavailable", False)
GetUnavailable(data, default) ==
    IF data.has_unavailable THEN data.unavailable ELSE default

\* super().from_dict(data): the Guild of the dict's entries, `unavailable`
\* taking its declared default False when the dict has none.
APIObjectFromDict(data) ==
    [id |-> data.id, name |-> data.name,
     unavailable |-> GetUnavailable(data, FALSE)]

GuildFromDict(data) ==
    IF GetUnavailable(data, FALSE)
    THEN [raised |-> RaiseNamed("UnavailableGuildError"), guild |-> NoGuild]
    ELSE [raised |-> "", guild |-> APIObjectFromDict(data)]

FromDict(d) ==
    /\ gdData' = d
    /\ gdRaised' = GuildFromDict(d).raised
    /\ gdResult' = GuildFromDict(d).guild
    /\ gdBuilt' = IF GuildFromDict(d).raised = ""
                  THEN gdBuilt \cup {GuildFromDict(d).guild.id}
                  ELSE gdBuilt
    /\ UNCHANGED <<mwVars, mainVars, sessVars, dispVars>>

----------------------------------------------------------------------------
(* python -m pincer: main *)

ProjectNames == {"bot", "app", ""}

ProjectPaths == {".", "/srv", "x"}

\* An argument with nargs=1, default=None: None, or a one-element list.
PyNone == [isNone |-> TRUE, list |-> <<>>]

PyList(x) == [isNone |-> FALSE, list |-> <<x>>]

\* Every namespace parse_args can return for the four options.
Namespaces ==
    [docs : BOOLEAN, version : BOOLEAN,
     init : {PyNone} \cup {PyList(n) : n \in ProjectNames},
     path : {PyNone} \cup {PyList(q) : q \in ProjectPaths}]

NoArgs == [docs |-> FALSE, version |-> FALSE, init |-> PyNone, path |-> PyNone]

\* Truth value of None or of a list.
Truthy(v) == ~v.isNone /\ Len(v.list) > 0

Call(op, a, b) == [op |-> op, a |-> a, b |-> b]

\* The body of main after parse_args: what it calls and how it ends.
\* args.path[0] with args.path None raises TypeError before init is called.
MainOutcome(a) ==
    IF a.docs
    THEN [performed |-> <<Call("display_docs", "", "")>>, raised |-> ""]
    ELSE IF a.version
    THEN [performed |-> <<Call("display_version", "", "")>>, raised |-> ""]
    ELSE IF Truthy(a.init)
    THEN IF a.path.isNone
         THEN [performed |-> <<>>, raised |-> "TypeError"]
         ELSE [performed |-> <<Call("init", a.init.list[1], a.path.list[1])>>,
               raised |-> ""]
    ELSE [performed |-> <<Call("print_help", "", "")>>, raised |-> ""]

Main ==
    /\ mainPc = "start"
    /\ mainPc' = "done"
    /\ performed' = MainOutcome(args).performed
    /\ mainRaised' = MainOutcome(args).raised
    /\ UNCHANGED <<args, mwVars, gdVars, sessVars, dispVars>>

----------------------------------------------------------------------------
(* Session state machine: sequence watermark *)

MaxSeq == 4

MaxSessions == 2

Max(a, b) == IF a >= b THEN a ELSE b

\* Ready: "every inbound envelope with a sequence number updates
\* sequence_watermark (... last-write-wins)".
UpdateWatermark(watermark, seq) == seq

\* Connecting: the socket opened.
Connected ==
    /\ status = "Connecting"
    /\ status' = IF session_id # None THEN "Resuming" ELSE "Identifying"
    /\ UNCHANGED <<session_id, sequence_watermark, maxSeen>>
    /\ UNCHANGED <<mwVars, gdVars, mainVars, dispVars>>

\* Identifying: the "ready" control frame arrived.
ReadyFrame(id) ==
    /\ status = "Identifying"
    /\ status' = "Ready"
    /\ session_id' = id
    /\ sequence_watermark' = 0
    /\ maxSeen' = 0
    /\ UNCHANGED <<mwVars, gdVars, mainVars, dispVars>>

\* Resuming: the server accepted the resume.
Resumed ==
    /\ status = "Resuming"
    /\ status' = "Ready"
    /\ UNCHANGED <<session_id, sequence_watermark, maxSeen>>
    /\ UNCHANGED <<mwVars, gdVars, mainVars, dispVars>>

\* Resuming: "invalid session": fall back to Identifying with a fresh state.
InvalidSession ==
    /\ status = "Resuming"
    /\ status' = "Identifying"
    /\ session_id' = None
    /\ sequence_watermark' = 0
    /\ maxSeen' = 0
    /\ UNCHANGED <<mwVars, gdVars, mainVars, dispVars>>

\* Ready: an inbound envelope with a sequence number.
Receive(seq) ==
    /\ status = "Ready"
    /\ sequence_watermark' = UpdateWatermark(sequence_watermark, seq)
    /\ maxSeen' = Max(maxSeen, seq)
    /\ UNCHANGED <<status, session_id>>
    /\ UNCHANGED <<mwVars, gdVars, mainVars, dispVars>>

\* Ready: socket error, heartbeat timeout or reconnect request.
Degrade ==
    /\ status = "Ready"
    /\ status' = "Degraded"
    /\ UNCHANGED <<session_id, sequence_watermark, maxSeen>>
    /\ UNCHANGED <<mwVars, gdVars, mainVars, dispVars>>

\* Degraded: back to Connecting, keeping session id and watermark.
Reconnect ==
    /\ status = "Degraded"
    /\ status' = "Connecting"
    /\ UNCHANGED <<session_id, sequence_watermark, maxSeen>>
    /\ UNCHANGED <<mwVars, gdVars, mainVars, dispVars>>

\* Explicit shutdown, or a fatal identify failure.
Close ==
    /\ status # "Closed"
    /\ status' = "Closed"
    /\ UNCHANGED <<session_id, sequence_watermark, maxSeen>>
    /\ UNCHANGED <<mwVars, gdVars, mainVars, dispVars>>

----------------------------------------------------------------------------
(* Dispatcher: handler registrations and handle(envelope) *)

MaxDispatches == 2

Dispatches == 1..MaxDispatches

Handlers == {"h1", "h2"}

InternalEvents == {"E", "F"}

\* The middleware registry: wire event name -> internal event name.
Registry == ("WIRE_E" :> "E") @@ ("WIRE_F" :> "F")

WireNames == {"WIRE_E", "WIRE_F", "WIRE_UNKNOWN"}

NeverRegistered == [at |-> 0, event |-> "", mode |-> ""]

\* The callbacks registered for internal event e, in registration order.
RECURSIVE CallbacksFor(_, _)
CallbacksFor(regs, e) ==
    IF regs = <<>> THEN <<>>
    ELSE IF Head(regs).event = e
         THEN <<Head(regs).callback>> \o CallbacksFor(Tail(regs), e)
         ELSE CallbacksFor(Tail(regs), e)

KeepOnce(regs, e) == regs

\* The registrations left once the OnceOnly entries for e are removed.
RECURSIVE TakeOnce(_, _)
TakeOnce(regs, e) ==
    IF regs = <<>> THEN <<>>
    ELSE IF Head(regs).event = e /\ Head(regs).mode = "OnceOnly"
         THEN TakeOnce(Tail(regs), e)
         ELSE <<Head(regs)>> \o TakeOnce(Tail(regs), e)

\* on(event_name, callback) / once(event_name, callback)
Register(h, e, mode) ==
    /\ regLog[h] = NeverRegistered
    /\ registrations' = Append(registrations,
                               [event |-> e, callback |-> h, mode |-> mode])
    /\ dclock' = dclock + 1
    /\ regLog' = [regLog EXCEPT ![h] = [at |-> dclock + 1, event |-> e, mode |-> mode]]
    /\ UNCHANGED <<invocations, dpc, denv, dname, dqueue, dtakenAt>>
    /\ UNCHANGED <<mwVars, gdVars, mainVars, sessVars>>

\* handle(envelope) step 1: resolve the transform; none registered: drop.
Handle(d, w) ==
    /\ dpc[d] = "idle"
    /\ denv' = [denv EXCEPT ![d] = w]
    /\ dpc' = [dpc EXCEPT ![d] = IF w \in DOMAIN Registry THEN "transform" ELSE "done"]
    /\ UNCHANGED <<registrations, regLog, invocations, dname, dqueue, dtakenAt, dclock>>
    /\ UNCHANGED <<mwVars, gdVars, mainVars, sessVars>>

\* step 2: the transform yields the internal event name, or fails and the
\* envelope is dropped.
Transform(d, ok) ==
    /\ dpc[d] = "transform"
    /\ dname' = [dname EXCEPT ![d] = IF ok THEN Registry[denv[d]] ELSE ""]
    /\ dpc' = [dpc EXCEPT ![d] = IF ok THEN "lookup" ELSE "done"]
    /\ UNCHANGED <<registrations, regLog, invocations, denv, dqueue, dtakenAt, dclock>>
    /\ UNCHANGED <<mwVars, gdVars, mainVars, sessVars>>

\* step 3, first half: look the registrations up and remove the OnceOnly ones
\* in the same step (removal before invoke).
LookupHandlers(d) ==
    /\ dpc[d] = "lookup"
    /\ dqueue' = [dqueue EXCEPT ![d] = CallbacksFor(registrations, dname[d])]
    /\ registrations' = TakeOnce(registrations, dname[d])
    /\ dclock' = dclock + 1
    /\ dtakenAt' = [dtakenAt EXCEPT ![d] = dclock + 1]
    /\ dpc' = [dpc EXCEPT ![d] = "invoke"]
    /\ UNCHANGED <<regLog, invocations, denv, dname>>
    /\ UNCHANGED <<mwVars, gdVars, mainVars, sessVars>>

\* step 3, second half, and step 4: invoke the next handler; a handler that
\* raises is isolated, so the remaining ones still run.
Invoke(d) ==
    /\ dpc[d] = "invoke"
    /\ dqueue[d] # <<>>
    /\ invocations' = [invocations EXCEPT ![Head(dqueue[d])] = @ + 1]
    /\ dqueue' = [dqueue EXCEPT ![d] = Tail(@)]
    /\ UNCHANGED <<registrations, regLog, dpc, denv, dname, dtakenAt, dclock>>
    /\ UNCHANGED <<mwVars, gdVars, mainVars, sessVars>>

Finish(d) ==
    /\ dpc[d] = "invoke"
    /\ dqueue[d] = <<>>
    /\ dpc' = [dpc EXCEPT ![d] = "done"]
    /\ UNCHANGED <<registrations, regLog, invocations, denv, dname, dqueue,
                   dtakenAt, dclock>>
    /\ UNCHANGED <<mwVars, gdVars, mainVars, sessVars>>

----------------------------------------------------------------------------
(* Initial states and specifications *)

InitMw ==
    /\ guilds = InitialGuilds
    /\ payload = [t \in Tasks |-> NoPayload]
    /\ pc = [t \in Tasks |-> "idle"]
    /\ event = [t \in Tasks |-> NoEvent]
    /\ guild = [t \in Tasks |-> None]
    /\ newRoles = [t \in Tasks |-> <<>>]
    /\ result = [t \in Tasks |-> <<>>]
    /\ running = 0
    /\ history = <<>>

InitGuild ==
    /\ gdData = NoData
    /\ gdRaised = ""
    /\ gdResult = NoGuild
    /\ gdBuilt = {}

\* main has not run; a specification of main draws args from Namespaces.
InitMain(namespaces) ==
    /\ args \in namespaces
    /\ mainPc = "start"
    /\ performed = <<>>
    /\ mainRaised = ""

InitSession ==
    /\ status = "Connecting"
    /\ session_id = None
    /\ sequence_watermark = 0
    /\ maxSeen = 0

InitDispatcher ==
    /\ registrations = <<>>
    /\ regLog = [h \in Handlers |-> NeverRegistered]
    /\ invocations = [h \in Handlers |-> 0]
    /\ dpc = [d \in Dispatches |-> "idle"]
    /\ denv = [d \in Dispatches |-> ""]
    /\ dname = [d \in Dispatches |-> ""]
    /\ dqueue = [d \in Dispatches |-> <<>>]
    /\ dtakenAt = [d \in Dispatches |-> 0]
    /\ dclock = 0

Init ==
    InitMw /\ InitGuild /\ InitMain({NoArgs}) /\ InitSession /\ InitDispatcher

\* The middleware coroutines on the client's event loop.
Next ==
    \/ \E t \in Tasks :
        \E p \in RoleUpdatePayloads \cup MessageCreatePayloads \cup HandlerReads :
            Dispatch(t, p)
    \/ \E t \in Tasks : Decode(t)
    \/ \E t \in Tasks : Lookup(t)
    \/ \E t \in Tasks : Build(t)
    \/ \E t \in Tasks : Store(t)
    \/ \E t \in Tasks : Return(t)
    \/ \E t \in Tasks : MessageCreate(t)
    \/ \E t \in Tasks : HandlerRead(t)

Spec == Init /\ [][Next]_vars

\* Calls of Guild.from_dict.
NextGuild == \E d \in GuildDicts : FromDict(d)

SpecGuild == Init /\ [][NextGuild]_vars

\* One run of main for every namespace.
InitOfMain ==
    InitMw /\ InitGuild /\ InitMain(Namespaces) /\ InitSession /\ InitDispatcher

NextMain == Main

SpecMain == InitOfMain /\ [][NextMain]_vars

\* One shard's session.
NextSession ==
    \/ Connected
    \/ \E id \in 1..MaxSessions : ReadyFrame(id)
    \/ Resumed
    \/ InvalidSession
    \/ \E seq \in 1..MaxSeq : Receive(seq)
    \/ Degrade
    \/ Reconnect
    \/ Close

SpecSession == Init /\ [][NextSession]_vars

\* Registrations and concurrent dispatches.
NextDispatcher ==
    \/ \E h \in Handlers, e \in InternalEvents, m \in {"Persistent", "OnceOnly"} :
        Register(h, e, m)
    \/ \E d \in Dispatches, w \in WireNames : Handle(d, w)
    \/ \E d \in Dispatches, ok \in BOOLEAN : Transform(d, ok)
    \/ \E d \in Dispatches : LookupHandlers(d)
    \/ \E d \in Dispatches : Invoke(d)
    \/ \E d \in Dispatches : Finish(d)

SpecDispatcher == Init /\ [][NextDispatcher]_vars

----------------------------------------------------------------------------
(* Properties *)

RoleUpdateTask(t) == payload[t].event_name = "GUILD_ROLE_UPDATE"

\* The Role that decoding task t's payload yields.
DecodedRole(t) == MkRole(payload[t].data.role.id, payload[t].data.role.name, t)

HasRole(roles, rid) == \E i \in 1..Len(roles) : roles[i].id = rid

\* C1: when guild_role_update_middleware returns for a payload whose guild is
\* cached and whose role id is the id of a role of that guild, the cached
\* guild's role with that id is the role decoded from the payload, and the
\* value returned is ("on_guild_role_update", event) with event.role that role.
C1_CachedRoleReplaced ==
    [][\A t \in Tasks :
        (/\ RoleUpdateTask(t)
         /\ pc[t] = "return" /\ pc'[t] = "done"
         /\ payload[t].data.guild_id \in DOMAIN guilds
         /\ HasRole(guilds[payload[t].data.guild_id].roles, payload[t].data.role.id))
        => LET g == payload[t].data.guild_id
               roles == guilds'[g].roles
           IN /\ \A i \in 1..Len(roles) :
                    roles[i].id = DecodedRole(t).id => roles[i] = DecodedRole(t)
              /\ result'[t] = <<"on_guild_role_update",
                                [guild_id |-> g, role |-> DecodedRole(t)]>>
      ]_vars

\* The spec's scenario: guild 1 role 9 "old" updated to "new".
C1_Witness ==
    \E t \in Tasks :
        /\ pc[t] = "done"
        /\ RoleUpdateTask(t)
        /\ payload[t].data = [guild_id |-> 1, role |-> [id |-> 9, name |-> "new"]]
        /\ guilds[1].roles[1] = MkRole(9, "new", t)
        /\ result[t][1] = "on_guild_role_update"
        /\ result[t][2].role.name = "new"

\* C2: every step of guild_role_update_middleware for a payload whose guild_id
\* is no key of the guild cache leaves the cache as it was and raises nothing,
\* and the coroutine returns ("on_guild_role_update", event).
C2_AbsentGuildNoOp ==
    [][\A t \in Tasks :
        (/\ RoleUpdateTask(t)
         /\ pc'[t] # pc[t]
         /\ payload[t].data.guild_id \notin DOMAIN guilds)
        => /\ guilds' = guilds
           /\ pc'[t] # "raised"
           /\ pc'[t] = "done" =>
                result'[t] = <<"on_guild_role_update",
                               GuildRoleUpdateEventFromDict(payload[t].data, t)>>
      ]_vars

C2_Witness ==
    \E t \in Tasks :
        /\ pc[t] = "done"
        /\ RoleUpdateTask(t)
        /\ payload[t].data.guild_id = 3
        /\ result[t][1] = "on_guild_role_update"
        /\ result[t][2].guild_id = 3
        /\ guilds = InitialGuilds

\* C6: message_create_middleware returns "on_message" with a list of exactly
\* one message, decoded from the payload data, and leaves the guild cache as
\* it was.
C6_MessageCreateResult ==
    [][\A t \in Tasks :
        (payload[t].event_name = "MESSAGE_CREATE" /\ pc'[t] # pc[t])
        => /\ pc'[t] = "done"
           /\ Len(result'[t]) = 2
           /\ result'[t][1] = "on_message"
           /\ Len(result'[t][2]) = 1
           /\ result'[t][2][1].id = payload[t].data.id
           /\ result'[t][2][1].content = payload[t].data.content
           /\ guilds' = guilds
      ]_vars

C6_Witness ==
    \E t \in Tasks :
        /\ pc[t] = "done"
        /\ payload[t].event_name = "MESSAGE_CREATE"
        /\ result[t][1] = "on_message"
        /\ result[t][2][1].content = "hi"

\* The roles of guild g after the first k stores of the history, each applied
\* whole, one after the other.
RECURSIVE SerialRoles(_, _)
SerialRoles(g, k) ==
    IF k = 0 THEN InitialGuilds[g].roles
    ELSE IF guild[history[k]] = g
         THEN ReplaceRole(SerialRoles(g, k - 1), event[history[k]].role)
         ELSE SerialRoles(g, k - 1)

\* C7: the roles of every cached guild are those of running the role-update
\* transforms one after the other (no update is lost), and what a handler read
\* is the roles before or after one of the transforms.
C7_RoleUpdateAtomic ==
    /\ \A g \in DOMAIN guilds : guilds[g].roles = SerialRoles(g, Len(history))
    /\ \A t \in Tasks :
        (payload[t].event_name = "handler_read" /\ pc[t] = "done")
        => \E k \in 0..Len(history) :
              result[t][2] = SerialRoles(payload[t].data.guild_id, k)

\* Two transforms on guild 1, one per role, both finished.
C7_Witness ==
    \E t, u \in Tasks :
        /\ t # u
        /\ pc[t] = "done" /\ pc[u] = "done"
        /\ RoleUpdateTask(t) /\ RoleUpdateTask(u)
        /\ payload[t].data.guild_id = 1 /\ payload[u].data.guild_id = 1
        /\ payload[t].data.role.id = 9 /\ payload[u].data.role.id = 8
        /\ guilds[1].roles = <<DecodedRole(t), DecodedRole(u)>>
        /\ Len(history) = 2

\* C9: a step of guild_role_update_middleware adds and removes no guild,
\* changes no other guild, keeps the length and the order of the guild's
\* roles, keeps every role with another id the same object, and changes
\* nothing when no role has the event's role id.
C9_OnlyMatchingRoleChanges ==
    [][\A t \in Tasks :
        (RoleUpdateTask(t) /\ pc'[t] # pc[t])
        => LET g == payload[t].data.guild_id
               rid == payload[t].data.role.id
           IN /\ DOMAIN guilds' = DOMAIN guilds
              /\ \A h \in DOMAIN guilds : h # g => guilds'[h] = guilds[h]
              /\ g \in DOMAIN guilds =>
                    LET old == guilds[g].roles
                        new == guilds'[g].roles
                    IN /\ guilds'[g].id = guilds[g].id
                       /\ Len(new) = Len(old)
                       /\ \A i \in 1..Len(old) : new[i].id = old[i].id
                       /\ \A i \in 1..Len(old) : old[i].id # rid => new[i] = old[i]
                       /\ ~HasRole(old, rid) => new = old
      ]_vars

\* One update of role 8 in guild 1 (role 9 untouched) and one for role 8 in
\* guild 2, which has no such role.
C9_Witness ==
    \E t, u \in Tasks :
        /\ pc[t] = "done" /\ pc[u] = "done"
        /\ RoleUpdateTask(t) /\ RoleUpdateTask(u)
        /\ payload[t].data.guild_id = 1 /\ payload[t].data.role.id = 8
        /\ payload[u].data.guild_id = 2 /\ payload[u].data.role.id = 8
        /\ guilds[1].roles = <<InitialGuilds[1].roles[1], DecodedRole(t)>>
        /\ guilds[2] = InitialGuilds[2]

\* C5: Guild.from_dict of a dict whose "unavailable" is true ends with
\* UnavailableGuildError and no Guild; of a dict whose "unavailable" is absent
\* or false it returns the Guild decoded from the dict.
C5_FromDictAvailability ==
    gdData # NoData =>
        IF gdData.has_unavailable /\ gdData.unavailable
        THEN gdRaised = "UnavailableGuildError" /\ gdResult = NoGuild
        ELSE gdRaised = "" /\ gdResult = APIObjectFromDict(gdData)

\* The single call the claim names for namespace a; the path is the --path
\* value when one was given.
ClaimedCall(a, c) ==
    IF a.docs THEN c = Call("display_docs", "", "")
    ELSE IF a.version THEN c = Call("display_version", "", "")
    ELSE IF ~a.init.isNone
    THEN /\ c.op = "init"
         /\ c.a = a.init.list[1]
         /\ ~a.path.isNone => c.b = a.path.list[1]
    ELSE c = Call("print_help", "", "")

\* C8: main ends having made exactly one call, chosen by the priority docs,
\* version, init, help; init is called with the name and the path whether or
\* not --path was given.
C8_MainOneActionByPriority ==
    mainPc = "done" =>
        /\ mainRaised = ""
        /\ Len(performed) = 1
        /\ ClaimedCall(args, performed[1])

InRegistrations(h) ==
    \E i \in 1..Len(registrations) : registrations[i].callback = h

Occurrences(q, h) == Cardinality({i \in 1..Len(q) : q[i] = h})

RECURSIVE SumPending(_, _)
SumPending(ds, h) ==
    IF ds = {} THEN 0
    ELSE LET d == CHOOSE x \in ds : TRUE
         IN Occurrences(dqueue[d], h) + SumPending(ds \ {d}, h)

\* Invocations of h that a dispatch has taken and not yet made.
Pending(h) == SumPending(Dispatches, h)

\* Dispatches that mapped to h's event and looked their handlers up after h
\* was registered.
MatchingDispatches(h) ==
    {d \in Dispatches : dname[d] = regLog[h].event /\ dtakenAt[d] > regLog[h].at}

\* C3: a handler registered OnceOnly is never invoked twice; once a dispatch
\* that maps to its event has looked the handlers up, the registration is gone,
\* and when the dispatches have made their invocations the handler has been
\* invoked exactly once, however many dispatches matched and however they
\* interleaved.
C3_OnceOnlyFiresOnce ==
    \A h \in Handlers :
        regLog[h].mode = "OnceOnly" =>
            /\ invocations[h] <= 1
            /\ MatchingDispatches(h) # {} =>
                /\ ~InRegistrations(h)
                /\ Pending(h) + invocations[h] = 1

\* Two finished dispatches that both mapped to the event of a OnceOnly handler.
C3_Witness ==
    \E h \in Handlers :
        /\ regLog[h].mode = "OnceOnly"
        /\ Cardinality(MatchingDispatches(h)) >= 2
        /\ \A d \in MatchingDispatches(h) : dpc[d] = "done"
        /\ invocations[h] = 1
        /\ ~InRegistrations(h)

====
